---- MODULE Spec2Model ----
(***************************************************************************)
(* Model of scripts/fetch_updown_trades.py: the paginated, filtered,       *)
(* capped fetch loop (fetch_whale_trades) and the driver that runs it for  *)
(* every address and persists the combined dataset and the summary (main). *)
(*                                                                         *)
(* Strings are sequences of one-character strings so that str.lower() and  *)
(* the substring test are computed, not assumed.  A JSON value is tagged   *)
(* with its type, so that a null title is a value distinct from a string.  *)
(* LIMIT and MAX_TRADES_PER_WHALE are scaled down (500 -> 2, 50000 -> 2),  *)
(* keeping MAX_TRADES_PER_WHALE a multiple of LIMIT as in the source.      *)
(*                                                                         *)
(* Model of scripts/place_order.py: one run of the script, from the import *)
(* of the client library to the exit, with what it prints and which calls  *)
(* of the library it makes.  The two scripts are separate processes; each  *)
(* specification runs one of them and leaves the other not started.        *)
(***************************************************************************)
EXTENDS Integers, Sequences, FiniteSets, TLC

VARIABLES
    WHALE_ADDRESSES,   \* the ordered list of addresses main iterates over
    source,            \* the set of records the remote source can serve
    pc,                \* position of the control flow of main
    i,                 \* enumerate index of main's for loop (1-based)
    max_trades,        \* parameter of the running fetch_whale_trades call
    all_trades,        \* fetch_whale_trades: accumulator
    offset,            \* fetch_whale_trades: cursor
    total_fetched,     \* fetch_whale_trades: records seen
    trades,            \* fetch_whale_trades: last parsed page
    exc,               \* exception caught by the last attempt, "none" if none
    stop_msg,          \* message printed when the loop broke, "none" before
    all_whale_trades,  \* main: combined dataset
    summary,           \* main: summary entries, position k holds "whale<k>"
    trades_file,       \* whale_updown_all.json: <<>> absent, <<content>> written
    summary_file,      \* fetch_summary.json: <<>> absent, <<content>> written
    log,               \* history: requests issued and sleeps taken, in order
    results,           \* history: value returned by each fetch_whale_trades call
    faults,            \* failures the environment may still inject in this run
    installed,         \* place_order: py_clob_client can be imported
    argv,              \* place_order: sys.argv
    environ,           \* place_order: os.environ after load_dotenv
    order_pc,          \* place_order: position of the control flow
    side_str,          \* place_order: sys.argv[2].upper()
    size,              \* place_order: float(sys.argv[3]), in hundredths
    price,             \* place_order: float(sys.argv[4]), in hundredths
    client,            \* place_order: <<>> or <<the ClobClient built>>
    signed_order,      \* place_order: <<>> or <<the order created and signed>>
    resp,              \* place_order: <<>> or <<the value post_order returned>>
    stdout,            \* place_order: the JSON objects printed, in order
    stderr,            \* place_order: the tracebacks printed, in order
    exit_status,       \* place_order: <<>> while running, <<status>> after
    calls              \* history: the library calls made, in order

fetch_vars == <<WHALE_ADDRESSES, source, pc, i, max_trades, all_trades, offset,
                total_fetched, trades, exc, stop_msg, all_whale_trades, summary,
                trades_file, summary_file, log, results, faults>>

order_vars == <<installed, argv, environ, order_pc, side_str, size, price,
                client, signed_order, resp, stdout, stderr, exit_status, calls>>

vars == <<fetch_vars, order_vars>>

----------------------------------------------------------------------------
(* Program constants (scaled) and bounds of the exploration.               *)

LIMIT == 2
MAX_TRADES_PER_WHALE == 2

NumWhales == 2     \* length of WHALE_ADDRESSES in the full-run specification
MaxCap == 2        \* largest max_trades passed to a stand-alone fetch
MaxFaults == 2     \* failed attempts injected into a stand-alone fetch
MaxRunFaults == 1  \* failed attempts injected into a full run

Addresses == {"0x63ce", "0x818f"}

\* address lists of length n, with and without a repeated address; the first
\* entry is fixed, the source treating every address alike
AddressLists(n) == {w \in [1..n -> Addresses] : w[1] = "0x63ce"}

----------------------------------------------------------------------------
(* Strings and JSON values.                                                *)

UpperLetters == <<"A","B","C","D","E","F","G","H","I","J","K","L","M",
                  "N","O","P","Q","R","S","T","U","V","W","X","Y","Z">>
LowerLetters == <<"a","b","c","d","e","f","g","h","i","j","k","l","m",
                  "n","o","p","q","r","s","t","u","v","w","x","y","z">>

\* the lower-case letter of every upper-case letter
ToLower ==
    [c \in {UpperLetters[k] : k \in 1..Len(UpperLetters)} |->
        LowerLetters[CHOOSE k \in 1..Len(UpperLetters) : UpperLetters[k] = c]]

\* str.lower() on one character
LowerChar(c) == IF c \in DOMAIN ToLower THEN ToLower[c] ELSE c

\* str.lower()
Lower(s) == [k \in 1..Len(s) |-> LowerChar(s[k])]

\* Python's "sub in s"
Contains(s, sub) ==
    \E k \in 0..(Len(s) - Len(sub)) :
        \A j \in 1..Len(sub) : s[k + j] = sub[j]

JStr(s) == [type |-> "str", val |-> s]
JNull == [type |-> "null"]

MatchPhrase == <<"u","p"," ","o","r"," ","d","o","w","n">>

\* "BTC Up or Down", "up or down?", "Up or Out"
TitleLower == <<"u","p"," ","o","r"," ","d","o","w","n","?">>
TitleUpDown == <<"B","T","C"," ","U","p"," ","o","r"," ","D","o","w","n">>
TitleOther == <<"U","p"," ","o","r"," ","O","u","t">>

RecMatch == [title |-> JStr(TitleUpDown)]
RecMatchLower == [title |-> JStr(TitleLower)]
RecOther == [title |-> JStr(TitleOther)]
RecNoTitle == [price |-> JStr(<<"0",".","5">>)]
RecNullTitle == [title |-> JNull]

Records == {RecMatch, RecMatchLower, RecOther, RecNoTitle, RecNullTitle}

\* the records that carry a string title
Titled == {RecMatch, RecMatchLower, RecOther}

----------------------------------------------------------------------------
(* is_updown_trade                                                         *)

\* trade.get("title", "")
GetTitle(trade) ==
    IF "title" \in DOMAIN trade THEN trade.title ELSE JStr(<<>>)

\* .lower() exists on str only: anything else raises AttributeError
is_updown_trade_raises(trade) == GetTitle(trade).type # "str"

\* variant: the title is not lower-cased before the test
is_updown_trade_case_sensitive(trade) == Contains(GetTitle(trade).val, MatchPhrase)

is_updown_trade(trade) == Contains(Lower(GetTitle(trade).val), MatchPhrase)

----------------------------------------------------------------------------
(* The remote source and the history of requests.                          *)

RECURSIVE SeqsUpTo(_, _)
\* all sequences over S of length at most n
SeqsUpTo(S, n) ==
    IF n = 0 THEN {<<>>}
    ELSE LET shorter == SeqsUpTo(S, n - 1)
         IN  shorter \cup {Append(p, r) : p \in {q \in shorter : Len(q) = n - 1}, r \in S}

\* every page of at most LIMIT records
AllPages == SeqsUpTo(Records, LIMIT)

\* GET {BASE_URL}?maker=..&limit=LIMIT&offset=..: the source answers a request
\* with at most `limit` of its records
Pages(src) == {p \in AllPages : \A k \in 1..Len(p) : p[k] \in src}

\* exceptions raised by requests.get, raise_for_status and response.json
RequestErrors == {"ConnectionError", "Timeout", "HTTPError", "JSONDecodeError"}

GetEvent(who, off, ok, page) ==
    [op |-> "get", who |-> who, address |-> WHALE_ADDRESSES[who],
     offset |-> off, ok |-> ok, page |-> page]

SleepEvent(ms) == [op |-> "sleep", ms |-> ms]

----------------------------------------------------------------------------
(* fetch_whale_trades                                                      *)

\* updown_trades = [t for t in trades if is_updown_trade(t)]
FilterRaises(page) == \E k \in 1..Len(page) : is_updown_trade_raises(page[k])

\* is_updown_trade evaluated once for every record the source can serve
UpdownRecords == {r \in Records : ~is_updown_trade_raises(r) /\ is_updown_trade(r)}

UpdownTrades(page) == SelectSeq(page, LAMBDA t : t \in UpdownRecords)

\* the three stop conditions evaluated after a page has been accumulated
\* variant: a full page counts as the last one
ShortPageInclusive(page) == Len(page) <= LIMIT

ShortPage(page) == Len(page) < LIMIT

\* variant: the cap must be exceeded, not reached
MaxTradesReachedStrict(acc, max) == Len(acc) > max

MaxTradesReached(acc, max) == Len(acc) >= max

\* variant: the safety limit must be exceeded, not reached
SafetyLimitReachedStrict(total, max) == total > max * 2

SafetyLimitReached(total, max) == total >= max * 2

\* delay of the except branch and of the rate limit, in milliseconds
ErrorSleep == 1000
RateLimitSleep == 150

\* variant: the accumulator of the previous call is kept
fetch_call_keeps_accumulator ==
    /\ pc = "call"
    /\ offset' = 0
    /\ total_fetched' = 0
    /\ trades' = <<>>
    /\ exc' = "none"
    /\ stop_msg' = "none"
    /\ pc' = "loop"
    /\ UNCHANGED <<WHALE_ADDRESSES, source, i, max_trades, all_trades,
                   all_whale_trades, summary, trades_file, summary_file, log,
                   results, faults>>
    /\ UNCHANGED order_vars

\* lines 29-33: a call starts with an empty accumulator at offset 0
fetch_call ==
    /\ pc = "call"
    /\ all_trades' = <<>>
    /\ offset' = 0
    /\ total_fetched' = 0
    /\ trades' = <<>>
    /\ exc' = "none"
    /\ stop_msg' = "none"
    /\ pc' = "loop"
    /\ UNCHANGED <<WHALE_ADDRESSES, source, i, max_trades, all_whale_trades,
                   summary, trades_file, summary_file, log, results, faults>>
    /\ UNCHANGED order_vars

\* variant: the except branch moves on to the next page
ExceptBranchAdvance(e) ==
    /\ faults > 0
    /\ faults' = faults - 1
    /\ exc' = e
    /\ log' = log \o <<GetEvent(i, offset, FALSE, <<>>), SleepEvent(ErrorSleep)>>
    /\ pc' = "loop"
    /\ offset' = offset + LIMIT
    /\ UNCHANGED <<all_trades, total_fetched, stop_msg>>

\* variant: the page is counted before the failure is handled
ExceptBranchCounted(e) ==
    /\ faults > 0
    /\ faults' = faults - 1
    /\ exc' = e
    /\ log' = log \o <<GetEvent(i, offset, FALSE, <<>>), SleepEvent(ErrorSleep)>>
    /\ pc' = "loop"
    /\ total_fetched' = total_fetched + LIMIT
    /\ UNCHANGED <<all_trades, offset, stop_msg>>

\* variant: the exception is not caught and ends the script
ExceptBranchPropagates(e) ==
    /\ faults > 0
    /\ faults' = faults - 1
    /\ exc' = e
    /\ log' = Append(log, GetEvent(i, offset, FALSE, <<>>))
    /\ pc' = "crashed"
    /\ UNCHANGED <<all_trades, offset, total_fetched, stop_msg>>

\* lines 69-72: print, sleep one second, continue at the same offset
ExceptBranch(e) ==
    /\ faults > 0
    /\ faults' = faults - 1
    /\ exc' = e
    /\ log' = log \o <<GetEvent(i, offset, FALSE, <<>>), SleepEvent(ErrorSleep)>>
    /\ pc' = "loop"
    /\ UNCHANGED <<all_trades, offset, total_fetched, stop_msg>>

\* lines 36-40 raise: no page is parsed
attempt_raises ==
    /\ pc = "loop"
    /\ \E e \in RequestErrors : ExceptBranch(e)
    /\ UNCHANGED <<WHALE_ADDRESSES, source, i, max_trades, trades,
                   all_whale_trades, summary, trades_file, summary_file, results>>
    /\ UNCHANGED order_vars

\* variant: the cap conditions are tested before the short page
StopMessageCapsFirst(page, acc, total, max) ==
    IF page = <<>> THEN "No more trades"
    ELSE IF MaxTradesReached(acc, max) THEN "Reached max trades limit"
    ELSE IF SafetyLimitReached(total, max) THEN "Safety limit reached"
    ELSE IF ShortPage(page) THEN "Reached end of trades"
    ELSE "none"

\* lines 42-64: the break taken after a page, named by the message printed
\* before it; "none" when the loop goes on
StopMessage(page, acc, total, max) ==
    IF page = <<>> THEN "No more trades"
    ELSE IF ShortPage(page) THEN "Reached end of trades"
    ELSE IF MaxTradesReached(acc, max) THEN "Reached max trades limit"
    ELSE IF SafetyLimitReached(total, max) THEN "Safety limit reached"
    ELSE "none"

\* variant: the cursor is not moved
NextOffsetStuck(off) == off

\* offset += LIMIT
NextOffset(off) == off + LIMIT

\* lines 42-67 on a page parsed without error
ProcessPage(page) ==
    IF page = <<>>
    THEN \* if not trades: break
         /\ log' = Append(log, GetEvent(i, offset, TRUE, page))
         /\ exc' = "none"
         /\ stop_msg' = StopMessage(page, all_trades, total_fetched, max_trades)
         /\ pc' = "ret"
         /\ UNCHANGED <<all_trades, offset, total_fetched, faults>>
    ELSE IF FilterRaises(page)
    THEN ExceptBranch("AttributeError")
    ELSE LET acc == all_trades \o UpdownTrades(page)
             total == total_fetched + Len(page)
             msg == StopMessage(page, acc, total, max_trades)
             stop == msg # "none"
         IN  /\ all_trades' = acc
             /\ total_fetched' = total
             /\ exc' = "none"
             /\ stop_msg' = msg
             /\ offset' = IF stop THEN offset ELSE NextOffset(offset)
             /\ pc' = IF stop THEN "ret" ELSE "loop"
             /\ log' = IF stop
                       THEN Append(log, GetEvent(i, offset, TRUE, page))
                       ELSE log \o <<GetEvent(i, offset, TRUE, page),
                                     SleepEvent(RateLimitSleep)>>
             /\ UNCHANGED faults

\* lines 36-67: the request succeeds and its body parses to a page
attempt_page ==
    /\ pc = "loop"
    /\ \E page \in Pages(source) :
          /\ trades' = page
          /\ ProcessPage(page)
    /\ UNCHANGED <<WHALE_ADDRESSES, source, i, max_trades, all_whale_trades,
                   summary, trades_file, summary_file, results>>
    /\ UNCHANGED order_vars

----------------------------------------------------------------------------
(* main                                                                    *)

SummaryEntry(address, total, found) ==
    [address |-> address, total_fetched |-> total, updown_trades |-> Len(found)]

\* variant: the result list is appended as one element
ExtendAsAppend(combined, found) == Append(combined, found)

\* variant: the result is put in front of the combined dataset
ExtendInFront(combined, found) == found \o combined

\* all_whale_trades.extend(trades)
Extend(combined, found) == combined \o found

\* lines 81-88: the call returns (all_trades, total_fetched); main extends
\* the combined dataset, records summary["whale<i>"] and goes on
main_collect ==
    /\ pc = "ret"
    /\ results' = Append(results, <<all_trades, total_fetched>>)
    /\ all_whale_trades' = Extend(all_whale_trades, all_trades)
    /\ summary' = Append(summary,
                         SummaryEntry(WHALE_ADDRESSES[i], total_fetched, all_trades))
    /\ IF i < Len(WHALE_ADDRESSES)
       THEN /\ i' = i + 1
            /\ pc' = "call"
       ELSE /\ i' = i
            /\ pc' = "save_trades"
    /\ UNCHANGED <<WHALE_ADDRESSES, source, max_trades, all_trades, offset,
                   total_fetched, trades, exc, stop_msg, trades_file,
                   summary_file, log, faults>>
    /\ UNCHANGED order_vars

\* lines 91-93: json.dump(all_whale_trades) to whale_updown_all.json
save_trades ==
    /\ pc = "save_trades"
    /\ trades_file' = <<all_whale_trades>>
    /\ pc' = "save_summary"
    /\ UNCHANGED <<WHALE_ADDRESSES, source, i, max_trades, all_trades, offset,
                   total_fetched, trades, exc, stop_msg, all_whale_trades,
                   summary, summary_file, log, results, faults>>
    /\ UNCHANGED order_vars

\* summary["total_updown_trades"] = len(all_whale_trades); the timestamp
\* fetched_at is not modelled
SummaryDocument(entries, combined) ==
    [whales |-> entries, total_updown_trades |-> Len(combined)]

\* lines 96-100: json.dump(summary) to fetch_summary.json
save_summary ==
    /\ pc = "save_summary"
    /\ summary_file' = <<SummaryDocument(summary, all_whale_trades)>>
    /\ pc' = "done"
    /\ UNCHANGED <<WHALE_ADDRESSES, source, i, max_trades, all_trades, offset,
                   total_fetched, trades, exc, stop_msg, all_whale_trades,
                   summary, trades_file, log, results, faults>>
    /\ UNCHANGED order_vars

\* the process is terminated (signal, crash): its memory is gone, the files
\* written so far stay
interrupt ==
    /\ pc \notin {"done", "killed"}
    /\ pc' = "killed"
    /\ all_trades' = <<>>
    /\ offset' = 0
    /\ total_fetched' = 0
    /\ trades' = <<>>
    /\ exc' = "none"
    /\ stop_msg' = "none"
    /\ all_whale_trades' = <<>>
    /\ summary' = <<>>
    /\ UNCHANGED <<WHALE_ADDRESSES, source, i, max_trades, trades_file,
                   summary_file, log, results, faults>>
    /\ UNCHANGED order_vars

----------------------------------------------------------------------------
(* scripts/place_order.py: arguments, environment and library answers.     *)

Digits == <<"0","1","2","3","4","5","6","7","8","9">>

IsDigit(c) == \E k \in 1..Len(Digits) : Digits[k] = c

DigitValue(c) == (CHOOSE k \in 1..Len(Digits) : Digits[k] = c) - 1

RECURSIVE DigitsValue(_)
\* the number written by a sequence of digits
DigitsValue(ds) ==
    IF ds = <<>> THEN 0
    ELSE 10 * DigitsValue(SubSeq(ds, 1, Len(ds) - 1)) + DigitValue(ds[Len(ds)])

\* int(text) raises ValueError unless the text is a decimal integer
IntRaises(text) == text = <<>> \/ \E k \in 1..Len(text) : ~IsDigit(text[k])

\* int(text)
IntOf(text) == DigitsValue(text)

\* float(text) raises ValueError; the literals accepted are digits with at
\* most one decimal point
FloatRaises(text) ==
    \/ \A k \in 1..Len(text) : ~IsDigit(text[k])
    \/ \E k \in 1..Len(text) : ~IsDigit(text[k]) /\ text[k] # "."
    \/ Cardinality({k \in 1..Len(text) : text[k] = "."}) > 1

\* float(text), in hundredths, decimals after the second dropped
Float(text) ==
    LET dots == {k \in 1..Len(text) : text[k] = "."}
        dot == IF dots = {} THEN Len(text) + 1 ELSE CHOOSE k \in dots : TRUE
        whole == SubSeq(text, 1, dot - 1)
        frac == SubSeq(text, dot + 1, Len(text)) \o <<"0", "0">>
    IN  100 * DigitsValue(whole) + DigitsValue(SubSeq(frac, 1, 2))

\* the upper-case letter of every lower-case letter
ToUpper ==
    [c \in {LowerLetters[k] : k \in 1..Len(LowerLetters)} |->
        UpperLetters[CHOOSE k \in 1..Len(LowerLetters) : LowerLetters[k] = c]]

\* str.upper()
Upper(s) == [k \in 1..Len(s) |-> IF s[k] \in DOMAIN ToUpper THEN ToUpper[s[k]] ELSE s[k]]

ProgName == <<"p","l","a","c","e","_","o","r","d","e","r",".","p","y">>
TokenId == <<"7","1">>
SideTexts == {<<"b","u","y">>, <<"S","E","L","L">>, <<"h","o","l","d">>}
SizeTexts == {<<"1","0">>, <<"t","e","n">>}
PriceTexts == {<<"0",".","5">>, <<"0",".","5",".">>}

\* command lines: one argument short, and complete ones
Argvs ==
    {<<ProgName, TokenId, <<"B","U","Y">>, <<"1","0">>>>}
    \cup {<<ProgName, TokenId, sd, sz, pr>> :
             sd \in SideTexts, sz \in SizeTexts, pr \in PriceTexts}

EnvNames == {"WALLET_PRIVATE_KEY", "CLOB_API_KEY", "CLOB_API_SECRET", "SIGNATURE_TYPE"}

\* the values a variable has when it is set
EnvValues(name) ==
    CASE name = "WALLET_PRIVATE_KEY" -> {<<>>, <<"0","x","a","1">>}
      [] name = "CLOB_API_KEY" -> {<<"k","1">>}
      [] name = "CLOB_API_SECRET" -> {<<"s","1">>}
      [] name = "SIGNATURE_TYPE" -> {<<"2">>, <<"p","r","o","x","y">>}

\* environments: every variable unset or set to one of its values
Environments ==
    UNION {{e \in [D -> UNION {EnvValues(n) : n \in D}] :
               \A n \in D : e[n] \in EnvValues(n)} : D \in SUBSET EnvNames}

\* os.getenv(name, default)
Getenv(name, default) == IF name \in DOMAIN environ THEN environ[name] ELSE default

\* a JSON object, as a dict
JDict(d) == [type |-> "dict", val |-> d]

\* a dict with no key
EmptyDict == [k \in {} |-> ""]

\* what client.post_order may return
Responses ==
    {JNull,
     JDict(EmptyDict),
     JStr("OK"),
     JDict([errorMsg |-> "not enough balance", errorCode |-> "E1"]),
     JDict([errorMsg |-> "", orderID |-> "0xorder", status |-> "matched"]),
     JDict([success |-> "true"])}

\* exceptions the library calls may raise
LibraryErrors == {"PolyApiException"}

\* Python's truth value of a response
Truthy(v) ==
    CASE v.type = "null" -> FALSE
      [] v.type = "dict" -> DOMAIN v.val # {}
      [] v.type = "str" -> v.val # ""

\* dict.get(key, default)
DictGet(d, key, default) == IF key \in DOMAIN d THEN d[key] ELSE default

\* str(resp)
StrOf(v) ==
    CASE v.type = "null" -> "None"
      [] v.type = "dict" -> IF DOMAIN v.val = {} THEN "{}" ELSE "{...}"
      [] v.type = "str" -> v.val

----------------------------------------------------------------------------
(* scripts/place_order.py: the script.                                     *)

\* print(json.dumps(obj)); sys.exit(status)
PrintAndExit(obj, status) ==
    /\ stdout' = Append(stdout, obj)
    /\ exit_status' = <<status>>
    /\ order_pc' = "exited"

\* lines 116-118: the except branch of main
OrderExcept(e) ==
    PrintAndExit([success |-> FALSE, error |-> e], 1)

\* lines 21-28: the import of the client library
import_client ==
    /\ order_pc = "import"
    /\ IF installed
       THEN /\ order_pc' = "main"
            /\ UNCHANGED <<stdout, exit_status>>
       ELSE PrintAndExit([success |-> FALSE,
                          error |-> "py-clob-client not installed. Run: pip install py-clob-client"], 1)
    /\ UNCHANGED <<installed, argv, environ, side_str, size, price, client,
                   signed_order, resp, stderr, calls>>
    /\ UNCHANGED fetch_vars

\* lines 31-33: the argument count
check_usage ==
    /\ order_pc = "main"
    /\ IF Len(argv) < 5
       THEN PrintAndExit([success |-> FALSE,
                          error |-> "Usage: place_order.py <token_id> <side> <size> <price>"], 1)
       ELSE /\ order_pc' = "parse"
            /\ UNCHANGED <<stdout, exit_status>>
    /\ UNCHANGED <<installed, argv, environ, side_str, size, price, client,
                   signed_order, resp, stderr, calls>>
    /\ UNCHANGED fetch_vars

\* lines 35-38: the arguments are converted outside the try block, so a
\* ValueError of float() ends the script with a traceback and status 1
parse_args ==
    /\ order_pc = "parse"
    /\ side_str' = Upper(argv[3])
    /\ IF FloatRaises(argv[4])
       THEN /\ stderr' = Append(stderr, "ValueError")
            /\ exit_status' = <<1>>
            /\ order_pc' = "exited"
            /\ UNCHANGED <<size, price>>
       ELSE /\ size' = Float(argv[4])
            /\ IF FloatRaises(argv[5])
               THEN /\ stderr' = Append(stderr, "ValueError")
                    /\ exit_status' = <<1>>
                    /\ order_pc' = "exited"
                    /\ UNCHANGED price
               ELSE /\ price' = Float(argv[5])
                    /\ order_pc' = "credentials"
                    /\ UNCHANGED <<stderr, exit_status>>
    /\ UNCHANGED <<installed, argv, environ, client, signed_order, resp,
                   stdout, calls>>
    /\ UNCHANGED fetch_vars

\* variant: only the API key is required
CredentialsMissingKeyOnly(api_key, api_secret) == api_key = <<>>

\* line 54: not api_key or not api_secret
CredentialsMissing(api_key, api_secret) == api_key = <<>> \/ api_secret = <<>>

\* lines 41-56: the credentials read from the environment
check_credentials ==
    /\ order_pc = "credentials"
    /\ LET private_key == Getenv("WALLET_PRIVATE_KEY", <<>>)
           api_key == Getenv("CLOB_API_KEY", <<>>)
           api_secret == Getenv("CLOB_API_SECRET", <<>>)
       IN  IF private_key = <<>>
           THEN PrintAndExit([success |-> FALSE,
                              error |-> "WALLET_PRIVATE_KEY not set in .env"], 1)
           ELSE IF CredentialsMissing(api_key, api_secret)
           THEN PrintAndExit([success |-> FALSE,
                              error |-> "CLOB_API_KEY/SECRET not set in .env"], 1)
           ELSE /\ order_pc' = "try"
                /\ UNCHANGED <<stdout, exit_status>>
    /\ UNCHANGED <<installed, argv, environ, side_str, size, price, client,
                   signed_order, resp, stderr, calls>>
    /\ UNCHANGED fetch_vars

\* lines 58-77: the credentials object, the signature type and the client
create_client ==
    /\ order_pc = "try"
    /\ LET sig_text == Getenv("SIGNATURE_TYPE", <<"1">>)
       IN  IF IntRaises(sig_text)
           THEN /\ OrderExcept("ValueError")
                /\ UNCHANGED <<client, calls>>
           ELSE /\ calls' = Append(calls, "ClobClient")
                /\ \/ /\ client' = <<[key |-> Getenv("WALLET_PRIVATE_KEY", <<>>),
                                     api_key |-> Getenv("CLOB_API_KEY", <<>>),
                                     api_secret |-> Getenv("CLOB_API_SECRET", <<>>),
                                     signature_type |-> IntOf(sig_text)]>>
                      /\ order_pc' = "order"
                      /\ UNCHANGED <<stdout, exit_status>>
                   \/ /\ \E e \in LibraryErrors : OrderExcept(e)
                      /\ UNCHANGED client
    /\ UNCHANGED <<installed, argv, environ, side_str, size, price,
                   signed_order, resp, stderr>>
    /\ UNCHANGED fetch_vars

\* lines 80-91: the side, the order arguments, the order created and signed
create_order ==
    /\ order_pc = "order"
    /\ calls' = Append(calls, "create_order")
    /\ \/ /\ signed_order' =
                <<[token_id |-> argv[2],
                   side |-> IF side_str = <<"B","U","Y">> THEN "BUY" ELSE "SELL",
                   size |-> size, price |-> price]>>
          /\ order_pc' = "post"
          /\ UNCHANGED <<stdout, exit_status>>
       \/ /\ \E e \in LibraryErrors : OrderExcept(e)
          /\ UNCHANGED signed_order
    /\ UNCHANGED <<installed, argv, environ, side_str, size, price, client,
                   resp, stderr>>
    /\ UNCHANGED fetch_vars

\* line 94: the order is posted, fill or kill
post_order ==
    /\ order_pc = "post"
    /\ calls' = Append(calls, "post_order")
    /\ \/ /\ \E r \in Responses : resp' = <<r>>
          /\ order_pc' = "report"
          /\ UNCHANGED <<stdout, exit_status>>
       \/ /\ \E e \in LibraryErrors : OrderExcept(e)
          /\ UNCHANGED resp
    /\ UNCHANGED <<installed, argv, environ, side_str, size, price, client,
                   signed_order, stderr>>
    /\ UNCHANGED fetch_vars

\* lines 96-114: the object printed for a response; main returns, status 0
ResultObject(r) ==
    IF Truthy(r) /\ r.type = "dict"
    THEN IF DictGet(r.val, "errorMsg", "") # ""
         THEN [success |-> FALSE,
               error |-> DictGet(r.val, "errorMsg", "Unknown error"),
               error_code |-> DictGet(r.val, "errorCode", "")]
         ELSE [success |-> TRUE,
               order_id |-> DictGet(r.val, "orderID", ""),
               status |-> DictGet(r.val, "status", ""),
               response |-> r.val]
    ELSE [success |-> Truthy(r), response |-> StrOf(r)]

\* lines 96-114
print_result ==
    /\ order_pc = "report"
    /\ PrintAndExit(ResultObject(resp[1]), 0)
    /\ UNCHANGED <<installed, argv, environ, side_str, size, price, client,
                   signed_order, resp, stderr, calls>>
    /\ UNCHANGED fetch_vars

----------------------------------------------------------------------------
(* Specifications                                                          *)

\* place_order is not run
OrderNotRun ==
    /\ installed = TRUE
    /\ argv = <<>>
    /\ environ = EmptyDict
    /\ order_pc = "off"
    /\ side_str = <<>>
    /\ size = 0
    /\ price = 0
    /\ client = <<>>
    /\ signed_order = <<>>
    /\ resp = <<>>
    /\ stdout = <<>>
    /\ stderr = <<>>
    /\ exit_status = <<>>
    /\ calls = <<>>

InitProcess ==
    /\ OrderNotRun
    /\ pc = "call"
    /\ i = 1
    /\ all_trades = <<>>
    /\ offset = 0
    /\ total_fetched = 0
    /\ trades = <<>>
    /\ exc = "none"
    /\ stop_msg = "none"
    /\ all_whale_trades = <<>>
    /\ summary = <<>>
    /\ trades_file = <<>>
    /\ summary_file = <<>>
    /\ log = <<>>
    /\ results = <<>>

\* a full run of main: every call uses the default max_trades
Init ==
    /\ WHALE_ADDRESSES \in AddressLists(NumWhales)
    /\ source = Titled
    /\ max_trades = MAX_TRADES_PER_WHALE
    /\ faults = MaxRunFaults
    /\ InitProcess

\* one address, any max_trades up to MaxCap, any record
InitFetch ==
    /\ WHALE_ADDRESSES \in AddressLists(1)
    /\ source = Records
    /\ max_trades \in 0..MaxCap
    /\ faults = MaxFaults
    /\ InitProcess

Next ==
    \/ fetch_call
    \/ attempt_raises
    \/ attempt_page
    \/ main_collect
    \/ save_trades
    \/ save_summary
    \/ interrupt

Spec == Init /\ [][Next]_vars

FetchSpec == InitFetch /\ [][Next]_vars

\* fetch_updown_trades is not run
FetchNotRun ==
    /\ WHALE_ADDRESSES = <<>>
    /\ source = {}
    /\ pc = "off"
    /\ i = 1
    /\ max_trades = MAX_TRADES_PER_WHALE
    /\ all_trades = <<>>
    /\ offset = 0
    /\ total_fetched = 0
    /\ trades = <<>>
    /\ exc = "none"
    /\ stop_msg = "none"
    /\ all_whale_trades = <<>>
    /\ summary = <<>>
    /\ trades_file = <<>>
    /\ summary_file = <<>>
    /\ log = <<>>
    /\ results = <<>>
    /\ faults = 0

\* one run of place_order: any command line, any environment
InitOrder ==
    /\ FetchNotRun
    /\ installed \in BOOLEAN
    /\ argv \in Argvs
    /\ environ \in Environments
    /\ order_pc = "import"
    /\ side_str = <<>>
    /\ size = 0
    /\ price = 0
    /\ client = <<>>
    /\ signed_order = <<>>
    /\ resp = <<>>
    /\ stdout = <<>>
    /\ stderr = <<>>
    /\ exit_status = <<>>
    /\ calls = <<>>

NextOrder ==
    \/ import_client
    \/ check_usage
    \/ parse_args
    \/ check_credentials
    \/ create_client
    \/ create_order
    \/ post_order
    \/ print_result

OrderSpec == InitOrder /\ [][NextOrder]_vars

\* the steps of the script itself: a run that nothing interrupts
NextRun ==
    \/ fetch_call
    \/ attempt_raises
    \/ attempt_page
    \/ main_collect
    \/ save_trades
    \/ save_summary

\* an uninterrupted run of main: the process keeps taking its next step, and
\* the requests fail only finitely often (the failure budget of Init)
FairSpec == Init /\ [][NextRun]_vars /\ WF_vars(NextRun)

----------------------------------------------------------------------------
(* Vocabulary of the properties: the history of one call read off the log, *)
(* and the filter as the specification words it.                           *)

\* the requests issued for the address at list position w, in order
GetsOf(w) == SelectSeq(log, LAMBDA e : e.op = "get" /\ e.who = w)

\* the pages of the call at position w that were processed without error
OkGetsOf(w) == SelectSeq(GetsOf(w), LAMBDA e : e.ok)

\* the call for position i is running or has just returned
InCall == pc \in {"loop", "ret"}

LastOf(s) == s[Len(s)]

\* the same letter up to case
SameLetter(a, b) ==
    \/ a = b
    \/ \E n \in 1..Len(UpperLetters) : {a, b} = {UpperLetters[n], LowerLetters[n]}

\* the record has a string title that contains the match phrase, case ignored
TitleMatches(r) ==
    /\ "title" \in DOMAIN r
    /\ r.title.type = "str"
    /\ \E k \in 0..(Len(r.title.val) - Len(MatchPhrase)) :
          \A j \in 1..Len(MatchPhrase) : SameLetter(r.title.val[k + j], MatchPhrase[j])

\* the records of the model whose title matches in that sense
MatchingRecords == {r \in Records : TitleMatches(r)}

\* the records of a sequence that match, in order
Matching(recs) == SelectSeq(recs, LAMBDA r : r \in MatchingRecords)

\* the classification field is missing or is not a string
Malformed(r) == "title" \notin DOMAIN r \/ r.title.type # "str"

RECURSIVE Flatten(_)
\* the records of a sequence of get events, in order
Flatten(gets) ==
    IF gets = <<>> THEN <<>>
    ELSE Head(gets).page \o Flatten(Tail(gets))

----------------------------------------------------------------------------
\* C1 (Cap enforcement): the accumulator of a call with max_trades = N never
\* holds more than N elements, neither while the loop runs nor in the value
\* the call returns.
C1_CapEnforced ==
    /\ InCall => Len(all_trades) <= max_trades
    /\ \A k \in 1..Len(results) : Len(results[k][1]) <= max_trades

----------------------------------------------------------------------------
\* every page processed so far by the running call was full and held no
\* matching record
OnlyFullPagesWithoutMatch ==
    LET g == OkGetsOf(i)
    IN  \A k \in 1..Len(g) :
            /\ Len(g[k].page) = LIMIT
            /\ \A j \in 1..LIMIT : g[k].page[j] \notin MatchingRecords

\* C2 (Safety-cap enforcement): against a source whose records never match and
\* whose pages are all full, the loop is still running only while no page has
\* been processed or total_fetched is below 2 * max_trades, and it has returned exactly at the first processed
\* page that brought total_fetched to 2 * max_trades or more, the request of
\* that page being the last one issued.
C2_SafetyCap ==
    (pc \in {"loop", "ret", "save_trades", "save_summary", "done"}
       /\ OnlyFullPagesWithoutMatch) =>
        LET n == Len(OkGetsOf(i))
        IN  /\ pc = "loop" => n = 0 \/ total_fetched < 2 * max_trades
            /\ pc # "loop" =>
                  /\ total_fetched >= 2 * max_trades
                  /\ total_fetched = LIMIT * n
                  /\ n = 1 \/ total_fetched - LIMIT < 2 * max_trades
                  /\ LastOf(log).op = "get" /\ LastOf(log).ok

\* a call stopped by the safety limit after two full pages without a match,
\* one attempt having failed on the way
C2_Witness ==
    /\ pc = "ret"
    /\ max_trades = 2
    /\ OnlyFullPagesWithoutMatch
    /\ total_fetched = 4
    /\ all_trades = <<>>
    /\ Len(GetsOf(i)) = 3

----------------------------------------------------------------------------
\* C3 (Retry-without-advance): a failed attempt at offset O is followed by the
\* one-second pause and then, if any request follows, by a request of the same
\* call at offset O; right after the failure the loop is still running with
\* its cursor at O.
C3_RetrySameOffset ==
    \A k \in 1..Len(log) :
        (log[k].op = "get" /\ ~log[k].ok) =>
            /\ k + 1 <= Len(log)
            /\ log[k + 1] = SleepEvent(1000)
            /\ k + 2 <= Len(log) =>
                  /\ log[k + 2].op = "get"
                  /\ log[k + 2].who = log[k].who
                  /\ log[k + 2].offset = log[k].offset
            /\ (k + 1 = Len(log) /\ pc # "killed") =>
                  /\ pc = "loop"
                  /\ i = log[k].who
                  /\ offset = log[k].offset

\* two consecutive failures at the second page's offset, then the page
C3_Witness ==
    /\ Len(log) >= 7
    /\ log[1].op = "get" /\ log[1].ok
    /\ \E k \in 3..(Len(log) - 4) :
          /\ log[k].op = "get" /\ ~log[k].ok /\ log[k].offset = LIMIT
          /\ log[k + 2].op = "get" /\ ~log[k + 2].ok
          /\ log[k + 4].op = "get" /\ log[k + 4].ok /\ log[k + 4].offset = LIMIT

----------------------------------------------------------------------------
\* every attempt of the running call so far was processed without error
AllOk == \A k \in 1..Len(log) : log[k].op = "get" /\ log[k].who = i => log[k].ok

\* C4 as stated (Pagination termination): when no attempt fails, the requests
\* go to offsets 0, LIMIT, 2*LIMIT, ... and the loop goes on through every
\* full page, returning only on the page shorter than LIMIT.
C4_Original ==
    (InCall /\ AllOk) =>
        LET g == GetsOf(i)
        IN  /\ \A k \in 1..Len(g) : g[k].offset = (k - 1) * LIMIT
            /\ pc = "ret" => Len(LastOf(g).page) < LIMIT

\* C4 amended: when no attempt fails, request k goes to offset (k-1)*LIMIT,
\* every page before the last is full, the loop goes on after a full page
\* exactly when neither cap is reached on it, and it returns on the first page
\* that is short or on which len(all_trades) >= max_trades or
\* total_fetched >= 2 * max_trades.
C4_Pagination ==
    (InCall /\ AllOk) =>
        LET g == GetsOf(i)
            n == Len(g)
        IN  /\ \A k \in 1..n : g[k].offset = (k - 1) * LIMIT
            /\ \A k \in 1..(n - 1) : Len(g[k].page) = LIMIT
            /\ pc = "ret" =>
                  /\ n >= 1
                  /\ \/ Len(g[n].page) < LIMIT
                     \/ Len(all_trades) >= max_trades
                     \/ total_fetched >= 2 * max_trades
            /\ (pc = "loop" /\ n >= 1) =>
                  /\ Len(g[n].page) = LIMIT
                  /\ Len(all_trades) < max_trades
                  /\ total_fetched < 2 * max_trades

\* one full page, then a page of one record: two requests, at 0 and LIMIT
C4_Witness ==
    /\ pc = "ret"
    /\ AllOk
    /\ Len(GetsOf(i)) = 2
    /\ Len(GetsOf(i)[1].page) = LIMIT
    /\ Len(GetsOf(i)[2].page) = 1
    /\ GetsOf(i)[2].offset = LIMIT

----------------------------------------------------------------------------
\* C5 as stated (Empty-end termination): the loop ends on the request that
\* returns the empty page, whatever the pages before it.
C5_Original ==
    pc = "ret" => LastOf(OkGetsOf(i)).page = <<>>

\* every non-empty page processed by the running call was full
NonEmptyPagesFull ==
    \A k \in 1..Len(log) :
        (log[k].op = "get" /\ log[k].who = i /\ log[k].ok /\ log[k].page # <<>>) =>
            Len(log[k].page) = LIMIT

C5_EmptyEndState ==
    LET g == OkGetsOf(i)
        n == Len(g)
    IN  /\ (pc = "ret" /\ NonEmptyPagesFull /\ Len(all_trades) < max_trades
              /\ total_fetched < 2 * max_trades) =>
                 /\ LastOf(g).page = <<>>
                 /\ LastOf(log) = LastOf(g)
        /\ (InCall /\ n >= 1 /\ LastOf(g).page = <<>>) =>
                 /\ pc = "ret"
                 /\ total_fetched = LIMIT * (n - 1)
        /\ (InCall /\ Len(GetsOf(i)) = 1 /\ n = 1 /\ g[1].page = <<>>) =>
                 /\ all_trades = <<>>
                 /\ total_fetched = 0
        /\ (Len(results) >= 1 /\ Len(GetsOf(1)) = 1 /\ GetsOf(1)[1].ok
              /\ GetsOf(1)[1].page = <<>>) => results[1] = <<<<>>, 0>>

\* the step of a request answered by an empty page
C5_EmptyPageStep ==
    (pc = "loop" /\ Len(log') = Len(log) + 1 /\ LastOf(log').op = "get"
       /\ LastOf(log').ok /\ LastOf(log').page = <<>>) =>
          /\ pc' = "ret"
          /\ all_trades' = all_trades
          /\ total_fetched' = total_fetched
          /\ offset' = offset

\* C5 amended: a request answered by an empty page ends the loop and changes
\* neither the accumulator nor total_fetched; when every non-empty page is
\* full and neither cap is reached, the loop ends on the empty page and on
\* nothing else; an address with no records gives ([], 0) after one request.
C5_EmptyEnd == [][C5_EmptyPageStep]_vars /\ []C5_EmptyEndState

\* a full page, then the empty page ends the call
C5_Witness ==
    /\ pc = "ret"
    /\ Len(OkGetsOf(i)) = 2
    /\ Len(OkGetsOf(i)[1].page) = LIMIT
    /\ OkGetsOf(i)[2].page = <<>>
    /\ total_fetched = LIMIT

----------------------------------------------------------------------------
\* C6 (Filter and accumulator correctness): the accumulator is the sequence of
\* the records of the processed pages, in fetch order, whose title contains
\* the match phrase up to case; so is every returned result, and every
\* element of the accumulator passes is_updown_trade.
C6_FilterAccumulator ==
    /\ InCall =>
          /\ all_trades = Matching(Flatten(OkGetsOf(i)))
          /\ \A k \in 1..Len(all_trades) :
                /\ ~is_updown_trade_raises(all_trades[k])
                /\ is_updown_trade(all_trades[k])
    /\ \A w \in 1..Len(results) :
          results[w][1] = Matching(Flatten(OkGetsOf(w)))

\* two pages with a record of another title, one without title and two
\* matching ones
C6_Witness ==
    /\ InCall
    /\ Len(all_trades) = 2
    /\ Len(OkGetsOf(i)) = 2
    /\ \E k \in 1..Len(Flatten(OkGetsOf(i))) : Flatten(OkGetsOf(i))[k] = RecOther
    /\ \E k \in 1..Len(Flatten(OkGetsOf(i))) : Flatten(OkGetsOf(i))[k] = RecNoTitle

----------------------------------------------------------------------------
\* C7: a page holding a record whose title is absent, null or not a string is
\* processed like any other page: the attempt that parsed it does not end in
\* the except branch, and the page is counted.
C7_MalformedNeverRaises ==
    (InCall /\ exc \notin RequestErrors /\ \E k \in 1..Len(trades) : Malformed(trades[k])) =>
        /\ exc = "none"
        /\ LastOf(GetsOf(i)).ok
        /\ LastOf(GetsOf(i)).page = trades

----------------------------------------------------------------------------
RECURSIVE SumUpdown(_)
\* the sum of the updown_trades counts of summary entries
SumUpdown(entries) ==
    IF entries = <<>> THEN 0
    ELSE Head(entries).updown_trades + SumUpdown(Tail(entries))

\* C8 (Summary accuracy): every entry built by main, and every entry of the
\* written summary, has total_fetched >= updown_trades; the written summary
\* has one entry per list position, carrying that position's address, and
\* its total_updown_trades is the sum of the entries' updown_trades.
C8_SummaryAccuracy ==
    /\ \A k \in 1..Len(summary) : summary[k].total_fetched >= summary[k].updown_trades
    /\ summary_file # <<>> =>
          LET doc == summary_file[1]
          IN  /\ Len(doc.whales) = Len(WHALE_ADDRESSES)
              /\ \A k \in 1..Len(doc.whales) :
                    /\ doc.whales[k].address = WHALE_ADDRESSES[k]
                    /\ doc.whales[k].total_fetched >= doc.whales[k].updown_trades
              /\ doc.total_updown_trades = SumUpdown(doc.whales)

\* a written summary for a list that repeats an address, with one entry that
\* saw more records than it kept, after a failed attempt
C8_Witness ==
    /\ summary_file # <<>>
    /\ WHALE_ADDRESSES[1] = WHALE_ADDRESSES[2]
    /\ summary_file[1].whales[1].updown_trades = 1
    /\ summary_file[1].whales[1].total_fetched = 3
    /\ summary_file[1].whales[2].updown_trades = 2
    /\ summary_file[1].total_updown_trades = 3
    /\ faults = 0

----------------------------------------------------------------------------
RECURSIVE ConcatResults(_)
\* the accumulators returned by the calls, one after the other
ConcatResults(rs) ==
    IF rs = <<>> THEN <<>>
    ELSE Head(rs)[1] \o ConcatResults(Tail(rs))

\* C9 (Output concatenation order): the combined dataset held by main is the
\* concatenation of the results returned so far, in call order, and the
\* dataset written to whale_updown_all.json is the concatenation of the
\* results of all list positions.
C9_ConcatenationOrder ==
    /\ pc # "killed" => all_whale_trades = ConcatResults(results)
    /\ trades_file # <<>> =>
          /\ Len(results) = Len(WHALE_ADDRESSES)
          /\ trades_file[1] = ConcatResults(results)

\* results [a1, a2] and [b1] with a1 # a2 and b1 = a2, written as [a1, a2, b1]
C9_Witness ==
    /\ trades_file # <<>>
    /\ Len(results) = 2
    /\ results[1][1] = <<RecMatch, RecMatchLower>>
    /\ results[2][1] = <<RecMatchLower>>
    /\ trades_file[1] = <<RecMatch, RecMatchLower, RecMatchLower>>

----------------------------------------------------------------------------
\* C10 (All-or-nothing output): at every point of a run, interrupted or not,
\* either both files have been written or neither, and none is written before
\* the call for every list position has returned.
C10_AllOrNothing ==
    /\ trades_file = <<>> <=> summary_file = <<>>
    /\ (trades_file # <<>> \/ summary_file # <<>>) => Len(results) = Len(WHALE_ADDRESSES)

----------------------------------------------------------------------------
\* C11 (Fetch-loop exits): the call has returned only right after a page
\* processed without error that meets a stop condition, the first one met in
\* the order empty page, short page, accumulator at the cap, raw count at
\* twice the cap being the one reported; after a failed attempt the call is
\* still in its loop with the exception caught, and a call whose attempts
\* have all failed has not returned.
C11_ReturnsOnlyAfterStop ==
    LET gets == GetsOf(i)
        recs == Flatten(OkGetsOf(i))
        acc == Len(Matching(recs))
        total == Len(recs)
    IN  /\ pc = "loop" => stop_msg = "none"
        /\ pc = "ret" =>
              /\ log # <<>>
              /\ LastOf(log).op = "get" /\ LastOf(log).who = i /\ LastOf(log).ok
              /\ exc = "none"
              /\ LET page == LastOf(log).page
                     full == Len(page) >= LIMIT
                 IN  /\ stop_msg = "No more trades" <=> page = <<>>
                     /\ stop_msg = "Reached end of trades" <=>
                            page # <<>> /\ ~full
                     /\ stop_msg = "Reached max trades limit" <=>
                            full /\ acc >= max_trades
                     /\ stop_msg = "Safety limit reached" <=>
                            full /\ acc < max_trades /\ total >= 2 * max_trades
                     /\ stop_msg # "none"
        /\ InCall /\ gets # <<>> /\ ~LastOf(gets).ok => pc = "loop" /\ exc # "none"
        /\ InCall /\ (\A k \in 1..Len(gets) : ~gets[k].ok) => pc = "loop"

\* after a failed attempt, a short page that also fills the cap ends the call
\* and is reported as the end of the trades
C11_Witness ==
    /\ pc = "ret"
    /\ stop_msg = "Reached end of trades"
    /\ max_trades > 0
    /\ Len(all_trades) >= max_trades
    /\ \E k \in 1..Len(log) : log[k].op = "get" /\ ~log[k].ok

----------------------------------------------------------------------------
\* C12 (Inter-page pacing): every successful page request that is followed
\* by anything is followed by the pause of 150 ms, so that no request to the
\* source comes after it without that pause.
C12_PauseAfterEverySuccess ==
    \A k \in 1..(Len(log) - 1) :
        log[k].op = "get" /\ log[k].ok => log[k + 1] = [op |-> "sleep", ms |-> 150]

----------------------------------------------------------------------------
\* C15 (Sequential entity processing): the requests are issued in list
\* order, none for a list position before the call of every earlier position
\* has returned; every position is processed once, with its own address,
\* from offset 0 and an empty accumulator, its result being made of its own
\* pages only, and it gets its own summary entry, also when its address
\* occurs twice in the list.
C15_SequentialEntities ==
    /\ \A k \in 1..Len(log) : \A l \in k..Len(log) :
          log[k].op = "get" /\ log[l].op = "get" =>
              /\ log[k].who <= log[l].who
              /\ log[k].address = WHALE_ADDRESSES[log[k].who]
    /\ pc \in {"call", "loop", "ret"} =>
          /\ Len(results) = i - 1
          /\ Len(summary) = i - 1
          /\ \A k \in 1..Len(log) :
                log[k].op = "get" => log[k].who <= IF pc = "call" THEN i - 1 ELSE i
    /\ pc \in {"save_trades", "save_summary", "done"} =>
          /\ Len(results) = Len(WHALE_ADDRESSES)
          /\ Len(summary) = Len(WHALE_ADDRESSES)
    /\ \A k \in 1..Len(log) : log[k].op = "get" => log[k].who <= Len(results) + 1
    /\ \A w \in 1..Len(results) :
          LET gets == GetsOf(w)
              oks == OkGetsOf(w)
          IN  /\ gets # <<>>
              /\ gets[1].offset = 0
              /\ LastOf(gets).ok
              /\ results[w][1] = Matching(Flatten(oks))
              /\ results[w][2] = Len(Flatten(oks))
              /\ pc # "killed" =>
                    /\ summary[w].address = WHALE_ADDRESSES[w]
                    /\ summary[w].updown_trades = Len(results[w][1])
                    /\ summary[w].total_fetched = results[w][2]
    /\ pc = "loop" /\ GetsOf(i) = <<>> =>
          offset = 0 /\ all_trades = <<>> /\ total_fetched = 0
    /\ InCall => all_trades = Matching(Flatten(OkGetsOf(i)))

\* the same address at both list positions, fetched twice with different
\* pages served, each with its own summary entry
C15_Witness ==
    /\ pc = "done"
    /\ WHALE_ADDRESSES[1] = WHALE_ADDRESSES[2]
    /\ results[1][1] # <<>>
    /\ results[2][1] # <<>>
    /\ results[1] # results[2]
    /\ Len(summary) = 2
    /\ summary[1].address = summary[2].address

----------------------------------------------------------------------------
\* the successfully processed pages among the first k requests of a call
OkBefore(gets, k) == SelectSeq(SubSeq(gets, 1, k), LAMBDA e : e.ok)

\* C16 (Offset sequence): within one call the first request is at offset 0;
\* a request after a failed attempt is at the same offset; a request after a
\* successfully processed page is exactly LIMIT higher, and that page was
\* full and met no stop condition; so the offsets never decrease, none is
\* skipped and none is requested again after a page at it was processed.
C16_OffsetSequence ==
    InCall =>
        LET gets == GetsOf(i)
        IN  /\ gets # <<>> => gets[1].offset = 0
            /\ \A k \in 1..(Len(gets) - 1) :
                  IF gets[k].ok
                  THEN LET recs == Flatten(OkBefore(gets, k))
                       IN  /\ gets[k + 1].offset = gets[k].offset + LIMIT
                           /\ Len(gets[k].page) = LIMIT
                           /\ Len(Matching(recs)) < max_trades
                           /\ Len(recs) < 2 * max_trades
                  ELSE gets[k + 1].offset = gets[k].offset
            /\ \A k \in 1..Len(gets) : \A l \in k..Len(gets) :
                  /\ gets[k].offset <= gets[l].offset
                  /\ gets[k].ok /\ l > k => gets[k].offset < gets[l].offset
            /\ \A k \in 1..Len(gets) :
                  \A m \in 0..(gets[k].offset \div LIMIT) :
                      \E l \in 1..k : gets[l].offset = m * LIMIT
            /\ offset = IF gets = <<>> THEN 0
                        ELSE IF LastOf(gets).ok /\ pc = "loop"
                        THEN LastOf(gets).offset + LIMIT
                        ELSE LastOf(gets).offset

\* a failed attempt at offset 0, the page at 0, a failed attempt at LIMIT and
\* the page at LIMIT
C16_Witness ==
    /\ InCall
    /\ LET gets == GetsOf(i)
       IN  /\ Len(gets) = 4
           /\ ~gets[1].ok /\ gets[2].ok /\ ~gets[3].ok /\ gets[4].ok
           /\ gets[2].offset = 0
           /\ gets[4].offset = LIMIT

----------------------------------------------------------------------------
\* a step in which an attempt ends in the except branch leaves the
\* accumulator, the raw count and the offset as they were
C18_FailedAttemptStep ==
    (/\ pc = "loop"
     /\ Len(log') > Len(log)
     /\ log'[Len(log) + 1].op = "get"
     /\ ~log'[Len(log) + 1].ok)
    => /\ exc' # "none"
       /\ all_trades' = all_trades
       /\ total_fetched' = total_fetched
       /\ offset' = offset
       /\ pc' = "loop"

\* the accumulator and the raw count are made of the successfully processed
\* pages only, each offset among them counted once
C18_CountedOnce ==
    InCall =>
        LET oks == OkGetsOf(i)
        IN  /\ total_fetched = Len(Flatten(oks))
            /\ all_trades = Matching(Flatten(oks))
            /\ \A k \in 1..Len(oks) : \A l \in 1..Len(oks) :
                  oks[k].offset = oks[l].offset => k = l

\* C18 (Failed attempt has no effect): an attempt that ends in the except
\* branch, whatever raised, leaves all_trades, total_fetched and offset
\* unchanged, and a page that failed and was retried is counted in
\* all_trades and total_fetched exactly once.
C18_FailedAttemptNoEffect == [][C18_FailedAttemptStep]_vars /\ []C18_CountedOnce

\* a page processed, then a failed attempt at the next offset, then the page
\* at that offset processed on the retry and counted once
C18_Witness ==
    /\ InCall
    /\ LET gets == GetsOf(i)
       IN  /\ Len(gets) = 3
           /\ gets[1].ok /\ ~gets[2].ok /\ gets[3].ok
           /\ gets[2].offset = LIMIT /\ gets[3].offset = LIMIT
           /\ gets[3].page # <<>>
           /\ total_fetched = LIMIT + Len(gets[3].page)
           /\ Len(all_trades) > Len(Matching(gets[1].page))

----------------------------------------------------------------------------
\* the least integer not below a / b, for b > 0
CeilDiv(a, b) == (a + b - 1) \div b

\* the number of pages a call may process: ceil(2N / LIMIT), and the one
\* page of the first iteration when N = 0
PageBound(n) == IF n = 0 THEN 1 ELSE CeilDiv(2 * n, LIMIT)

\* C19 (Overshoot bounds), as stated: in every state of a call with cap N
\* the accumulator holds at most N - 1 + LIMIT records, total_fetched is at
\* most 2N - 1 + LIMIT, and at most ceil(2N / LIMIT) pages were processed
\* (one page when N = 0).
C19_Original ==
    InCall =>
        /\ Len(all_trades) <= max_trades - 1 + LIMIT
        /\ total_fetched <= 2 * max_trades - 1 + LIMIT
        /\ Len(OkGetsOf(i)) <= PageBound(max_trades)

\* C19 (Overshoot bounds), amended: the bounds N - 1 + LIMIT and
\* 2N - 1 + LIMIT hold for every cap N >= 1; with N = 0 the one page of the
\* first iteration is collected whole, so both bounds are LIMIT; the bound
\* on the number of processed pages is as stated.
C19_OvershootBounds ==
    InCall =>
        /\ max_trades >= 1 =>
              /\ Len(all_trades) <= max_trades - 1 + LIMIT
              /\ total_fetched <= 2 * max_trades - 1 + LIMIT
        /\ max_trades = 0 =>
              /\ Len(all_trades) <= LIMIT
              /\ total_fetched <= LIMIT
        /\ Len(OkGetsOf(i)) <= PageBound(max_trades)

\* cap 0: the call returned after one full page of matching records, all
\* of them collected
C19_Witness ==
    /\ pc = "ret"
    /\ max_trades = 0
    /\ Len(all_trades) = LIMIT
    /\ total_fetched = LIMIT
    /\ Len(OkGetsOf(i)) = 1

----------------------------------------------------------------------------
\* both files are written, after the call of every list position returned
RunComplete ==
    /\ pc = "done"
    /\ Len(results) = Len(WHALE_ADDRESSES)
    /\ trades_file # <<>>
    /\ summary_file # <<>>

----------------------------------------------------------------------------
\* WALLET_PRIVATE_KEY, CLOB_API_KEY or CLOB_API_SECRET is unset or empty
MissingCredentials ==
    \E n \in {"WALLET_PRIVATE_KEY", "CLOB_API_KEY", "CLOB_API_SECRET"} :
        n \notin DOMAIN environ \/ environ[n] = <<>>

\* the command line is complete and its size and price are numbers
GoodArguments ==
    /\ Len(argv) >= 5
    /\ ~FloatRaises(argv[4])
    /\ ~FloatRaises(argv[5])

\* C13 (Configuration error is fatal at startup): with WALLET_PRIVATE_KEY,
\* CLOB_API_KEY or CLOB_API_SECRET unset, place_order never enters the part
\* that builds the client, signs and posts: no library call is made, and
\* when the script has ended its status is not 0 and a failure was
\* reported; when the run got as far as the credentials, the report is the
\* one failure object naming the missing setting and the status is 1.
C13_ConfigErrorFatal ==
    MissingCredentials =>
        /\ calls = <<>>
        /\ client = <<>> /\ signed_order = <<>> /\ resp = <<>>
        /\ order_pc \in {"import", "main", "parse", "credentials", "exited"}
        /\ order_pc = "exited" =>
              /\ exit_status # <<>> /\ exit_status # <<0>>
              /\ \/ stderr # <<>>
                 \/ Len(stdout) = 1 /\ ~stdout[1].success
              /\ installed /\ GoodArguments =>
                    /\ exit_status = <<1>>
                    /\ stderr = <<>>
                    /\ Len(stdout) = 1
                    /\ ~stdout[1].success
                    /\ stdout[1].error \in {"WALLET_PRIVATE_KEY not set in .env",
                                            "CLOB_API_KEY/SECRET not set in .env"}

\* a complete command line, the private key and the API key set, the API
\* secret unset: the script ended with status 1 and the failure object
C13_Witness ==
    /\ order_pc = "exited"
    /\ installed /\ GoodArguments
    /\ "WALLET_PRIVATE_KEY" \in DOMAIN environ /\ environ["WALLET_PRIVATE_KEY"] # <<>>
    /\ "CLOB_API_KEY" \in DOMAIN environ
    /\ "CLOB_API_SECRET" \notin DOMAIN environ
    /\ stdout = <<[success |-> FALSE, error |-> "CLOB_API_KEY/SECRET not set in .env"]>>
    /\ exit_status = <<1>>
    /\ calls = <<>>

----------------------------------------------------------------------------
\* the two shapes of the module docstring (line 10): success true with
\* order_id and status, or success false with error
Documented(obj) ==
    \/ obj.success /\ {"order_id", "status"} \subseteq DOMAIN obj
    \/ ~obj.success /\ "error" \in DOMAIN obj

\* C14 (One JSON object of a documented shape): when place_order has ended,
\* on whatever path, it has printed exactly one JSON object, and that object
\* is success true with order_id and status, or success false with error.
C14_OneDocumentedObject ==
    order_pc = "exited" => Len(stdout) = 1 /\ Documented(stdout[1])

====
